---- MODULE Spec2Model ----
(***************************************************************************)
(* A model of easy-mongoo (src/easy-mongoo.js): the EasyMongoo singleton,  *)
(* its model registry (models / schemas maps), the schema compiler         *)
(* (schema, _convertToFullSchema, _parseSmartShortcut), feature synthesis  *)
(* (_addCommonVirtuals, _addAutoIndexes, _addAutoMiddleware), the schema-  *)
(* extension operations, the CRUD facade and the error normalizer          *)
(* (_handleError).                                                         *)
(*                                                                         *)
(* JavaScript runs every synchronous function to completion, so each       *)
(* synchronous method is one action.  mongoose itself is not part of the   *)
(* repository: a Schema object is modelled by the calls the code makes on  *)
(* it (virtual / index / pre / post / plugin), a store call by a           *)
(* nondeterministic outcome.                                               *)
(***************************************************************************)
EXTENDS Integers, Sequences, FiniteSets, TLC

VARIABLES
  models,        \* this.models   : model name -> handle id (0 = no entry)
  schemas,       \* this.schemas  : model name -> Schema object ref (0 = no entry)
  heap,          \* the mongoose.Schema objects created so far (ref = index)
  mongooseModels,\* the mongoose.model(name, schema) calls made, in order
  handed,        \* model name -> set of handles model(name, ..) has returned
  debug,         \* this.debug
  extCalls,      \* number of schema-extension calls that reached a schema
  last,          \* outcome of the most recent API call
  errOut,        \* what the most recent API call wrote with console.error
  job,           \* a direct call of one of the compiler's functions
  isConnected,   \* this.isConnected
  driver,        \* mongoose.connection: readyState, handlers, reconnecting
  pending,       \* the lifecycle call that is waiting on an await, if any
  tx,            \* a withRetryTransaction call: its loop and what it ran
  doc,           \* a document of a compiled schema, in memory and as stored
  now,           \* Date.now(), in milliseconds
  txn            \* a transaction(callback) call: its position and its session

vars == <<models, schemas, heap, mongooseModels, handed, debug, extCalls, last, errOut,
          job, isConnected, driver, pending, tx, doc, now, txn>>

\* The connection side of the instance.
connection == <<isConnected, driver, pending>>

----------------------------------------------------------------------------
(* Bounds of the model *)

\* Schema objects that may exist at once.
MaxSchemas == 2
\* Schema-extension calls explored on registered models.
MaxExtCalls == 1

ModelNames == {"User", "Post"}

Unset == "unset"

RECURSIVE Join(_, _)
\* errors.join(sep)
Join(msgs, sep) ==
  IF Len(msgs) = 0 THEN ""
  ELSE IF Len(msgs) = 1 THEN msgs[1]
  ELSE msgs[1] \o sep \o Join(Tail(msgs), sep)

----------------------------------------------------------------------------
(* Shorthand token table: _parseSmartShortcut *)

\* A canonical field description as the table writes it.  form = "ctor" is a
\* bare type constructor (String), form = "object" is { type: ..., ... }.
FieldSpec(form, type) ==
  [form |-> form, type |-> type, required |-> Unset, unique |-> FALSE,
   default |-> Unset, lowercase |-> FALSE, match |-> Unset,
   minlength |-> 0, ref |-> Unset]

Ctor(type) == FieldSpec("ctor", type)
Obj(type) == FieldSpec("object", type)
Required(type) == [Obj(type) EXCEPT !.required = "[true, '{PATH} is required']"]
WithDefault(type, d) == [Obj(type) EXCEPT !.default = d]
RequiredUnique(type) == [Obj(type) EXCEPT !.required = "true", !.unique = TRUE]
Ref(target) == [Obj("ObjectId") EXCEPT !.ref = target]

shortcuts ==
  ( "string!"  :> Required("String")  @@ "number!" :> Required("Number")
 @@ "boolean!" :> Required("Boolean") @@ "date!"   :> Required("Date")
 @@ "array!"   :> Required("Array")   @@ "object!" :> Required("Object")
 @@ "string?"  :> Ctor("String")      @@ "number?" :> Ctor("Number")
 @@ "boolean?" :> Ctor("Boolean")     @@ "date?"   :> Ctor("Date")
 @@ "array?"   :> Ctor("Array")       @@ "object?" :> Ctor("Object")
 @@ "string+"  :> WithDefault("String", "''")
 @@ "number+"  :> WithDefault("Number", "0")
 @@ "boolean+" :> WithDefault("Boolean", "false")
 @@ "date+"    :> WithDefault("Date", "Date.now")
 @@ "array+"   :> WithDefault("Array", "[]")
 @@ "string!!" :> RequiredUnique("String")
 @@ "number!!" :> RequiredUnique("Number")
 @@ "string"   :> Ctor("String")      @@ "number"  :> Ctor("Number")
 @@ "boolean"  :> Ctor("Boolean")     @@ "date"    :> Ctor("Date")
 @@ "array"    :> Ctor("Array")       @@ "object"  :> Ctor("Object")
 @@ "buffer"   :> Ctor("Buffer")
 @@ "email"    :> [Obj("String") EXCEPT !.required = "true", !.lowercase = TRUE,
                                        !.match = "email"]
 @@ "url"      :> [Obj("String") EXCEPT !.match = "url"]
 @@ "password" :> [Obj("String") EXCEPT !.required = "true", !.minlength = 6]
 @@ "userRef"    :> Ref("User")
 @@ "postRef"    :> Ref("Post")
 @@ "productRef" :> Ref("Product") )

\* shortcuts is an object literal, so shortcuts[key] also finds what the
\* literal inherits from Object.prototype: its constructor (Object), its
\* method functions and, under __proto__, the prototype object itself.
inherited ==
  ( "constructor"    :> Ctor("Object")
 @@ "toString"       :> FieldSpec("function", "Object.prototype.toString")
 @@ "valueOf"        :> FieldSpec("function", "Object.prototype.valueOf")
 @@ "hasOwnProperty" :> FieldSpec("function", "Object.prototype.hasOwnProperty")
 @@ "__proto__"      :> FieldSpec("prototype", "Object.prototype") )

\* shortcuts[shortcut] || { type: String }
ParseSmartShortcut(shortcut) ==
  IF shortcut \in DOMAIN shortcuts THEN shortcuts[shortcut]
  ELSE IF shortcut \in DOMAIN inherited THEN inherited[shortcut]
  ELSE Obj("String")

----------------------------------------------------------------------------
(* Schema descriptors handed to schema() / model() *)

\* A raw entry of a descriptor.  kind = "token": a shorthand string;
\* kind = "list": an array literal; kind = "ctor": a bare constructor;
\* kind = "object": an object literal (a partial descriptor or a nested
\* mapping).
Tok(s) == [kind |-> "token", tok |-> s]
ListOf(s) == [kind |-> "list", tok |-> s]
BareCtor(t) == [kind |-> "ctor", tok |-> t]

\* An object literal given for a field.  Property values are written as their
\* JavaScript text ("5", "[0, 'Price cannot be negative']", "'string'" for a
\* string, "String" for the constructor); Unset is a property the literal
\* does not have.  enum is kept as the list it is; sub holds the properties
\* that are sub-fields of a nested mapping.
Config ==
  [kind |-> "object", type |-> Unset, required |-> Unset, default |-> Unset,
   hasEnum |-> FALSE, enum |-> << >>, validate |-> Unset,
   min |-> Unset, max |-> Unset, minlength |-> Unset, maxlength |-> Unset,
   match |-> Unset, lowercase |-> Unset, trim |-> Unset, sub |-> << >>]

\* An array literal whose one element is an object literal.
ListOfMapping(sub) == [kind |-> "list", tok |-> Unset, sub |-> sub]

F(field, config) == [field |-> field, config |-> config]

\* The descriptors the operations are tried on (field order as written).
DUser ==
  << F("firstName", Tok("string!")), F("lastName", Tok("string!")),
     F("email", Tok("email")), F("password", Tok("password")),
     F("birthDate", Tok("date?")), F("isActive", Tok("boolean+")),
     F("permissions", ListOf("string")) >>
DQuick ==
  << F("name", Tok("string!")), F("email", Tok("email!!")),
     F("age", Tok("number?")) >>
DCollide ==
  << F("firstName", Tok("string!")), F("lastName", Tok("string!")),
     F("fullName", Tok("string")), F("dob", Tok("date!")),
     F("age", Tok("number")), F("createdAtFormatted", Tok("string?")) >>
DProduct ==
  << F("name", Tok("string!")), F("price", Tok("number!")),
     F("category", BareCtor("String")), F("inStock", Tok("boolean?")) >>

\* A text field given a numeric lower bound.
DMalformed ==
  << F("title", [Config EXCEPT !.type = "String", !.min = "5"]) >>

Descriptors == {DUser, DQuick, DCollide, DProduct, DMalformed}

FieldsOf(definition) == {definition[i].field : i \in DOMAIN definition}

----------------------------------------------------------------------------
(* _processFieldConfig and _getMongooseType *)

\* The property values for which typeof value === 'string'.
StringLiterals ==
  {"'string'", "'number'", "'boolean'", "'date'", "'array'", "'object'",
   "'buffer'", "'objectid'", "'mixed'", "'String'", "'decimal'",
   "'constructor'"}

typeMap ==
  ( "'string'"   :> "String"   @@ "'number'" :> "Number"
 @@ "'boolean'"  :> "Boolean"  @@ "'date'"   :> "Date"
 @@ "'array'"    :> "Array"    @@ "'object'" :> "Object"
 @@ "'buffer'"   :> "Buffer"
 @@ "'objectid'" :> "mongoose.Schema.Types.ObjectId"
 @@ "'mixed'"    :> "mongoose.Schema.Types.Mixed" )

\* typeMap[typeString] || String; typeMap is an object literal, whose
\* inherited constructor property is Object.
GetMongooseType(typeString) ==
  IF typeString \in DOMAIN typeMap THEN typeMap[typeString]
  ELSE IF typeString = "'constructor'" THEN "Object"
  ELSE "String"

\* Whether a property value passes an if (value) test.
Truthy(v) == v \notin {Unset, "0", "false", "''", "null"}

\* fieldName.toLowerCase().includes('email'), for the field names in use.
EmailNames == {"email", "userEmail", "contactEmail", "EMAIL"}
IncludesEmail(fieldName) == fieldName \in EmailNames

\* The enum test without the look at the validator the user gave.
NeedsEnumValidatorAlways(processed) == processed.hasEnum

\* processed.enum && !processed.validate (an array, even an empty one, passes
\* the first test)
NeedsEnumValidator(processed) == processed.hasEnum /\ ~Truthy(processed.validate)

\* The validate object the code generates, as text.
EnumValidate(enum) ==
  "{ validator: v => enum.includes(v), message: "
    \o "'{PATH} must be one of: " \o Join(enum, ", ") \o "' }"

\* The generated validator called on value: processed.enum.includes(value)
EnumValidator(processed, value) ==
  \E i \in DOMAIN processed.enum : processed.enum[i] = value

\* _processFieldConfig(fieldName, config): the steps in the order of the code,
\* each on the copy the step before left.
ProcessFieldConfig(fieldName, config) ==
  LET p1 == IF config.type \in StringLiterals
              THEN [config EXCEPT !.type = GetMongooseType(config.type)]
              ELSE config
      p2 == IF NeedsEnumValidator(p1)
              THEN [p1 EXCEPT !.validate = EnumValidate(p1.enum)]
              ELSE p1
      p3 == IF Truthy(p2.min) /\ ~Truthy(p2.minlength)
              THEN [p2 EXCEPT !.min =
                      "[" \o p2.min \o ", '{PATH} must be at least {MIN}']"]
              ELSE p2
      p4 == IF Truthy(p3.max) /\ ~Truthy(p3.maxlength)
              THEN [p3 EXCEPT !.max =
                      "[" \o p3.max \o ", '{PATH} cannot exceed {MAX}']"]
              ELSE p3
      p5 == IF IncludesEmail(fieldName)
              THEN [p4 EXCEPT !.lowercase = "true",
                              !.match = IF Truthy(p4.match) THEN p4.match
                                        ELSE "[emailRegex, 'Please enter a valid email']"]
              ELSE p4
  IN IF p5.type = "String" /\ p5.trim = Unset
       THEN [p5 EXCEPT !.trim = "true"]
       ELSE p5

----------------------------------------------------------------------------
(* _convertToFullSchema *)

\* One loop iteration: the converted entry for a field, or <<>> when no branch
\* of the if / else-if chain assigns converted[field] (a bare constructor is
\* neither a string, nor an array, nor typeof 'object').  A list is stored as
\* it was given (raw), its elements unresolved.
ConvertEntry(e) ==
  CASE e.config.kind = "token" ->
         << [field |-> e.field, kind |-> "spec",
             spec |-> ParseSmartShortcut(e.config.tok), raw |-> Unset] >>
    [] e.config.kind = "list" ->
         << [field |-> e.field, kind |-> "list",
             spec |-> Ctor("Array"), raw |-> e.config] >>
    [] e.config.kind = "object" ->
         << [field |-> e.field, kind |-> "object",
             obj |-> ProcessFieldConfig(e.field, e.config)] >>
    [] e.config.kind = "ctor" -> << >>

RECURSIVE ConvertFrom(_, _)
ConvertFrom(definition, i) ==
  IF i > Len(definition) THEN << >>
  ELSE ConvertEntry(definition[i]) \o ConvertFrom(definition, i + 1)

ConvertToFullSchema(definition) == ConvertFrom(definition, 1)

----------------------------------------------------------------------------
(* mongoose.Schema objects, as far as the code acts on them *)

\* new mongoose.Schema(processedDefinition, schemaOptions): one path per
\* converted field, plus _id and the two timestamp paths of the default options.
NewSchema(processed) ==
  [def |-> processed,
   paths |-> {processed[i].field : i \in DOMAIN processed}
               \cup {"_id", "createdAt", "updatedAt"},
   virtuals |-> {}, indexes |-> << >>, hooks |-> << >>,
   statics |-> {}, methods |-> {}, query |-> {}, plugins |-> << >>]

HasVirtual(s, name) == \E v \in s.virtuals : v.name = name

\* schema.virtual(name) followed by .get(..) / .set(..): the virtual is keyed
\* by name; a second call on the same name reuses the entry.
SchemaVirtual(s, name, get, set) ==
  LET old == {v \in s.virtuals : v.name = name}
      g == get \/ (\E v \in old : v.get)
      t == set \/ (\E v \in old : v.set)
  IN [s EXCEPT !.virtuals = (@ \ old) \cup {[name |-> name, get |-> g, set |-> t]}]

\* schema.index(keys, options)
SchemaIndex(s, field, dir, unique, sparse) ==
  [s EXCEPT !.indexes = Append(@, [field |-> field, dir |-> dir,
                                   unique |-> unique, sparse |-> sparse])]

\* schema.pre(event, fn) / schema.post(event, fn)
SchemaHook(s, when, event, fn) ==
  [s EXCEPT !.hooks = Append(@, [when |-> when, event |-> event, fn |-> fn])]

----------------------------------------------------------------------------
(* Feature synthesis *)

\* The virtual names _addCommonVirtuals asks the schema for, in call order.
CommonVirtualNames(s) ==
  << "createdAtFormatted" >>
  \o (IF "birthDate" \in s.paths \/ "dob" \in s.paths THEN << "age" >> ELSE << >>)
  \o (IF "firstName" \in s.paths /\ "lastName" \in s.paths
        THEN << "fullName" >> ELSE << >>)

RECURSIVE AddVirtuals(_, _, _)
AddVirtuals(s, names, i) ==
  IF i > Len(names) THEN s
  ELSE AddVirtuals(SchemaVirtual(s, names[i], TRUE, names[i] = "fullName"),
                   names, i + 1)

\* _addCommonVirtuals(schema).  rejects: whether the runtime's schema.virtual
\* refuses a name that is already a real path (it throws) or registers it.
AddCommonVirtuals(s, rejects) ==
  LET names == CommonVirtualNames(s)
  IN IF rejects /\ \E i \in DOMAIN names : names[i] \in s.paths
       THEN [threw |-> TRUE, schema |-> s]
       ELSE [threw |-> FALSE, schema |-> AddVirtuals(s, names, 1)]

BooleanTokens == {"boolean!", "boolean?", "boolean+"}

RECURSIVE AddBooleanIndexes(_, _, _)
AddBooleanIndexes(s, definition, i) ==
  IF i > Len(definition) THEN s
  ELSE LET e == definition[i]
           hit == e.config.kind = "token" /\ e.config.tok \in BooleanTokens
       IN AddBooleanIndexes(
            IF hit THEN SchemaIndex(s, e.field, 1, FALSE, FALSE) ELSE s,
            definition, i + 1)

\* _addAutoIndexes(schema, definition).  definition is what the caller passed
\* to model(): a descriptor, or (isSchema) a Schema instance, which has no
\* own property "email" and no property whose value is a boolean token.
AddAutoIndexes(s, isSchema, definition) ==
  LET s1 == IF ~isSchema /\ "email" \in FieldsOf(definition)
              THEN SchemaIndex(s, "email", 1, TRUE, TRUE) ELSE s
      s2 == SchemaIndex(s1, "createdAt", -1, FALSE, FALSE)
      s3 == SchemaIndex(s2, "updatedAt", -1, FALSE, FALSE)
  IN IF isSchema THEN s3 ELSE AddBooleanIndexes(s3, definition, 1)

\* _addAutoMiddleware(schema, modelName)
AddAutoMiddleware(s, modelName) ==
  LET s1 == IF "name" \in s.paths \/ "title" \in s.paths
              THEN SchemaHook(s, "pre", "save", "autoSlug") ELSE s
      s2 == IF "password" \in s.paths
              THEN SchemaHook(s1, "pre", "save", "autoHashPassword") ELSE s1
      s3 == SchemaHook(s2, "post", "save", "logSaved " \o modelName)
  IN SchemaHook(s3, "post", "remove", "logRemoved " \o modelName)

\* schema(definition, options): compile, construct, add the common virtuals.
SchemaOf(definition, rejects) ==
  AddCommonVirtuals(NewSchema(ConvertToFullSchema(definition)), rejects)

----------------------------------------------------------------------------
(* Failure values and the error normalizer: _getModel, _error, _handleError *)

\* error.code of a uniqueness conflict
DuplicateKeyCode == 11000

\* A value caught by a catch block: null / undefined, or an object with the
\* properties _handleError reads (an absent property is has.. = FALSE,
\* code = 0, name = Unset).
Failure(kind, code, name, message, hasKV, kv, hasErrs, errs) ==
  [kind |-> kind, code |-> code, name |-> name, message |-> message,
   hasKeyValue |-> hasKV, keyValue |-> kv, hasErrors |-> hasErrs, errors |-> errs]

NoFailure == Failure("none", 0, Unset, Unset, FALSE, << >>, FALSE, << >>)
NullFailure == Failure("null", 0, Unset, Unset, FALSE, << >>, FALSE, << >>)

KeyValueCases == { << FALSE, << >> >>, << TRUE, << "email" >> >> }
SubErrorCases == { << FALSE, << >> >>,
                   << TRUE, << "name is required", "Please enter a valid email" >> >> }

Shaped(c, n, kv, es) ==
  Failure("object", c, n, "store failure", kv[1], kv[2], es[1], es[2])

\* The failures a store call is tried with: null, every combination of the
\* properties _handleError reads, and the edge cases of the two collections.
Failures ==
  {NullFailure} \cup
  { Shaped(c, n, kv, es) :
      c \in {0, DuplicateKeyCode},
      n \in {"ValidationError", "CastError", "MongoServerError"},
      kv \in KeyValueCases, es \in SubErrorCases } \cup
  { Shaped(DuplicateKeyCode, "MongoServerError",
           << TRUE, << "sku", "email" >> >>, << FALSE, << >> >>),
    Shaped(DuplicateKeyCode, "MongoServerError",
           << TRUE, << >> >>, << FALSE, << >> >>),
    Shaped(0, "ValidationError", << FALSE, << >> >>,
           << TRUE, << "name is required" >> >>),
    Shaped(0, "ValidationError", << FALSE, << >> >>, << TRUE, << >> >>) }

\* An Error as thrown / returned: class "TypeError" is the engine's error for
\* a property read on null or Object.values(undefined).
ErrRec(class, message, hasOriginal, original) ==
  [class |-> class, message |-> message,
   hasOriginal |-> hasOriginal, original |-> original]
NoError == ErrRec("none", Unset, FALSE, NoFailure)
TypeError == ErrRec("TypeError", "TypeError", FALSE, NoFailure)

\* The same Error seen as the value a catch block receives.
AsFailure(err) ==
  Failure("object", 0, "Error", err.message, FALSE, << >>, FALSE, << >>)

\* _getModel(name) on a name this.models does not have
GetModelError(name) ==
  ErrRec("Error", "Model '" \o name \o "' not found. Create it first with .model()",
         FALSE, NoFailure)

\* the throw of virtual / static / method / query / pre / post / plugin
ExtensionError(modelName) ==
  ErrRec("Error", "Model '" \o modelName \o "' not found", FALSE, NoFailure)

\* _error written like _log: silent unless debug is on.
ErrorOutIfDebug(dbg, message) == IF dbg THEN << message >> ELSE << >>

\* _error(message): console.error, whatever this.debug is
ErrorOut(dbg, message) == << message >>

\* _handleError with the ValidationError branch tested before the code 11000
\* branch.
HandleErrorValidationFirst(operation, error, dbg) ==
  IF error.kind = "null" THEN
    [threw |-> TRUE, error |-> TypeError, logged |-> << >>]
  ELSE IF error.name = "ValidationError" /\ ~error.hasErrors THEN
    [threw |-> TRUE, error |-> TypeError, logged |-> << >>]
  ELSE
    LET field == IF error.hasKeyValue /\ Len(error.keyValue) > 0
                   THEN error.keyValue[1] ELSE "undefined"
        message ==
          IF error.name = "ValidationError"
            THEN "Validation failed: " \o Join(error.errors, ", ")
          ELSE IF error.code = DuplicateKeyCode
            THEN field \o " already exists. Please use a different value."
          ELSE IF error.name = "CastError"
            THEN "Invalid ID format"
          ELSE "Failed to " \o operation
    IN [threw |-> FALSE,
        error |-> ErrRec("Error", message, TRUE, error),
        logged |-> ErrorOut(dbg, "(x) " \o message)]

\* _handleError(operation, error).  "(x) " stands for the cross-mark prefix of
\* the logged line.
HandleError(operation, error, dbg) ==
  IF error.kind = "null" THEN
    [threw |-> TRUE, error |-> TypeError, logged |-> << >>]
  ELSE IF error.code # DuplicateKeyCode /\ error.name = "ValidationError"
          /\ ~error.hasErrors THEN
    [threw |-> TRUE, error |-> TypeError, logged |-> << >>]
  ELSE
    LET field == IF error.hasKeyValue /\ Len(error.keyValue) > 0
                   THEN error.keyValue[1] ELSE "undefined"
        message ==
          IF error.code = DuplicateKeyCode
            THEN field \o " already exists. Please use a different value."
          ELSE IF error.name = "ValidationError"
            THEN "Validation failed: " \o Join(error.errors, ", ")
          ELSE IF error.name = "CastError"
            THEN "Invalid ID format"
          ELSE "Failed to " \o operation
    IN [threw |-> FALSE,
        error |-> ErrRec("Error", message, TRUE, error),
        logged |-> ErrorOut(dbg, "(x) " \o message)]

----------------------------------------------------------------------------
(* State after construction (constructor, lines 4-10) *)

\* Outcome of an API call: what it returned or threw.  handle / ref: the model
\* handle or Schema object returned; error: the value thrown; reachedStore:
\* the underlying model call was made; failure: what that call rejected with;
\* created: model() took the path that materializes a model; operation: the
\* text the CRUD method passes to _handleError.
Result(op, name, outcome, handle, ref, error, reached, failure) ==
  [op |-> op, name |-> name, outcome |-> outcome, handle |-> handle, ref |-> ref,
   error |-> error, reachedStore |-> reached, failure |-> failure,
   created |-> FALSE, operation |-> Unset]

Returned(op, name, handle, ref) ==
  Result(op, name, "returned", handle, ref, NoError, FALSE, NoFailure)
Threw(op, name, error) ==
  Result(op, name, "threw", 0, 0, error, FALSE, NoFailure)

\* No direct call of a compiler function has been made.
NoJob == [pc |-> "none", fn |-> Unset]

\* No lifecycle call is waiting on an await.
Idle == [call |-> "none", at |-> 0]

\* No withRetryTransaction call has been made.
NoTx == [pc |-> "none"]

\* No document has been made.
NoDoc == [pc |-> "none"]

\* No transaction(callback) call has been made.
NoTxn == [pc |-> "none"]

\* A time in milliseconds since the epoch, written hi * 1000000 + lo with
\* 0 <= lo < 1000000.
Million == 1000000
Ms(hi, lo) == [hi |-> hi, lo |-> lo]

\* What Date.now() gives when the instance is constructed.
StartTime == Ms(1700000, 0)

\* The state after construction (the constructor; nothing compiled yet, the
\* driver not connected).
Constructed ==
  /\ models = [n \in ModelNames |-> 0]
  /\ schemas = [n \in ModelNames |-> 0]
  /\ heap = << >>
  /\ mongooseModels = << >>
  /\ handed = [n \in ModelNames |-> {}]
  /\ debug = FALSE
  /\ extCalls = 0
  /\ last = Result("none", Unset, "none", 0, 0, NoError, FALSE, NoFailure)
  /\ errOut = << >>
  /\ isConnected = FALSE
  /\ driver = [readyState |-> "disconnected", handlers |-> 0, reconnecting |-> FALSE]
  /\ pending = Idle
  /\ tx = NoTx
  /\ doc = NoDoc
  /\ now = StartTime
  /\ txn = NoTxn

Init == Constructed /\ job = NoJob

----------------------------------------------------------------------------
(* schema() and model() *)

\* schema(definition): a new Schema object, returned to the caller.
Schema ==
  \E definition \in Descriptors, rejects \in BOOLEAN :
    LET r == SchemaOf(definition, rejects)
    IN /\ Len(heap) < MaxSchemas
       /\ IF r.threw
            THEN /\ last' = Threw("schema", Unset,
                                  ErrRec("Error", "virtual conflicts with a real path",
                                         FALSE, NoFailure))
                 /\ UNCHANGED heap
            ELSE /\ heap' = Append(heap, r.schema)
                 /\ last' = Returned("schema", Unset, 0, Len(heap) + 1)
       /\ errOut' = << >>
       /\ UNCHANGED <<models, schemas, mongooseModels, handed, debug, extCalls>>
       /\ UNCHANGED <<job, connection, tx, doc, now, txn>>

\* The registry check left out: every call takes the creation path.
ModelsHasDropped(reg, name) == FALSE

\* this.models.has(name)
ModelsHas(reg, name) == reg[name] # 0

\* Register without this.models.set(name, model).
RegisterWithoutSet(name, ref, s, isSchema, definition) ==
  LET synth == AddAutoMiddleware(AddAutoIndexes(s, isSchema, definition), name)
      handle == Len(mongooseModels) + 1
  IN /\ heap' = IF ref > Len(heap) THEN Append(heap, synth)
                ELSE [heap EXCEPT ![ref] = synth]
     /\ mongooseModels' = Append(mongooseModels, [name |-> name, schema |-> ref])
     /\ schemas' = [schemas EXCEPT ![name] = ref]
     /\ handed' = [handed EXCEPT ![name] = @ \cup {handle}]
     /\ last' = [Returned("model", name, handle, ref) EXCEPT !.created = TRUE]
     /\ UNCHANGED models

\* The part of model() after the registry check, on a schema that exists:
\* synthesis, materialization, the two registry writes.
Register(name, ref, s, isSchema, definition) ==
  LET synth == AddAutoMiddleware(AddAutoIndexes(s, isSchema, definition), name)
      handle == Len(mongooseModels) + 1
  IN /\ heap' = IF ref > Len(heap) THEN Append(heap, synth)
                ELSE [heap EXCEPT ![ref] = synth]
     /\ mongooseModels' = Append(mongooseModels, [name |-> name, schema |-> ref])
     /\ models' = [models EXCEPT ![name] = handle]
     /\ schemas' = [schemas EXCEPT ![name] = ref]
     /\ handed' = [handed EXCEPT ![name] = @ \cup {handle}]
     /\ last' = [Returned("model", name, handle, ref) EXCEPT !.created = TRUE]

\* model(name, schemaDef) with schemaDef a descriptor
Model(name, definition, rejects) ==
  /\ errOut' = << >>
  /\ UNCHANGED <<debug, extCalls, job, connection, tx, doc, now, txn>>
  /\ IF ModelsHas(models, name)
       THEN /\ last' = Returned("model", name, models[name], schemas[name])
            /\ handed' = [handed EXCEPT ![name] = @ \cup {models[name]}]
            /\ UNCHANGED <<models, schemas, heap, mongooseModels>>
       ELSE LET r == SchemaOf(definition, rejects)
            IN /\ Len(heap) < MaxSchemas
               /\ IF r.threw
                    THEN /\ last' = Threw("model", name,
                                 ErrRec("Error", "virtual conflicts with a real path",
                                        FALSE, NoFailure))
                         /\ UNCHANGED <<models, schemas, heap, mongooseModels, handed>>
                    ELSE Register(name, Len(heap) + 1, r.schema, FALSE, definition)

ModelFromDescriptor ==
  \E name \in ModelNames, definition \in Descriptors, rejects \in BOOLEAN :
    Model(name, definition, rejects)

\* model(name, { name: 'string!', email: 'email!!', age: 'number?' })
ModelQuickStart ==
  \E name \in ModelNames : Model(name, DQuick, TRUE)

\* model(name, schemaDef) with schemaDef instanceof mongoose.Schema
ModelFromSchema ==
  \E name \in ModelNames, ref \in DOMAIN heap :
    /\ errOut' = << >>
    /\ UNCHANGED <<debug, extCalls, job, connection, tx, doc, now, txn>>
    /\ IF ModelsHas(models, name)
         THEN /\ last' = Returned("model", name, models[name], schemas[name])
              /\ handed' = [handed EXCEPT ![name] = @ \cup {models[name]}]
              /\ UNCHANGED <<models, schemas, heap, mongooseModels>>
         ELSE Register(name, ref, heap[ref], TRUE, << >>)

\* setDebug(debug)
SetDebug ==
  /\ \E d \in BOOLEAN : debug' = d
  /\ last' = Returned("setDebug", Unset, 0, 0)
  /\ errOut' = << >>
  /\ UNCHANGED <<models, schemas, heap, mongooseModels, handed, extCalls>>
  /\ UNCHANGED <<job, connection, tx, doc, now, txn>>

----------------------------------------------------------------------------
(* Schema extensions: virtual, static, method, query, pre, post, plugin *)

\* The missing-schema check left out.
SchemaMissingDropped(reg, modelName) == FALSE

\* !schema, for schema = this.schemas.get(modelName)
SchemaMissing(reg, modelName) == reg[modelName] = 0

\* The common shape of the seven operations: look the schema up in
\* this.schemas, throw when it is missing, otherwise change it.
\* changed: the schema after the operation; rejected: the schema call threw.
Extend(op, modelName, changed, rejected) ==
  /\ errOut' = << >>
  /\ UNCHANGED <<models, schemas, mongooseModels, handed, debug>>
  /\ UNCHANGED <<job, connection, tx, doc, now, txn>>
  /\ IF SchemaMissing(schemas, modelName)
       THEN /\ last' = Threw(op, modelName, ExtensionError(modelName))
            /\ UNCHANGED <<heap, extCalls>>
       ELSE /\ extCalls < MaxExtCalls
            /\ extCalls' = extCalls + 1
            /\ IF rejected
                 THEN /\ last' = Threw(op, modelName,
                                   ErrRec("Error", "virtual conflicts with a real path",
                                          FALSE, NoFailure))
                      /\ UNCHANGED heap
                 ELSE /\ heap' = [heap EXCEPT ![schemas[modelName]] = changed]
                      /\ last' = Returned(op, modelName, 0, schemas[modelName])

\* The schema this.schemas holds for modelName (any schema when there is none:
\* the operation throws before using it).
Stored(modelName) ==
  IF schemas[modelName] = 0 THEN NewSchema(<< >>) ELSE heap[schemas[modelName]]

Virtual ==
  \E modelName \in ModelNames, field \in {"fullName"},
     getter \in BOOLEAN, setter \in BOOLEAN, rejects \in BOOLEAN :
    Extend("virtual", modelName,
           SchemaVirtual(Stored(modelName), field, getter, setter),
           rejects /\ field \in Stored(modelName).paths)

Static ==
  \E modelName \in ModelNames, name \in {"findActive"} :
    Extend("static", modelName,
           [Stored(modelName) EXCEPT !.statics = @ \cup {name}], FALSE)

Method ==
  \E modelName \in ModelNames, name \in {"greet"} :
    Extend("method", modelName,
           [Stored(modelName) EXCEPT !.methods = @ \cup {name}], FALSE)

Query ==
  \E modelName \in ModelNames, name \in {"byStatus"} :
    Extend("query", modelName,
           [Stored(modelName) EXCEPT !.query = @ \cup {name}], FALSE)

Pre ==
  \E modelName \in ModelNames, hook \in {"save"} :
    Extend("pre", modelName,
           SchemaHook(Stored(modelName), "pre", hook, "callback"), FALSE)

Post ==
  \E modelName \in ModelNames, hook \in {"save"} :
    Extend("post", modelName,
           SchemaHook(Stored(modelName), "post", hook, "callback"), FALSE)

Plugin ==
  \E modelName \in ModelNames :
    Extend("plugin", modelName,
           [Stored(modelName) EXCEPT !.plugins = Append(@, "plugin")], FALSE)

----------------------------------------------------------------------------
(* CRUD facade *)

\* What the awaited model call does: it resolves, or rejects with a failure.
StoreOk == Failure("ok", 0, Unset, Unset, FALSE, << >>, FALSE, << >>)
StoreOutcomes == {StoreOk} \cup Failures

\* The catch block: throw this._handleError(operation, error)
Caught(op, modelName, operation, error, reached, failure) ==
  LET h == HandleError(operation, error, debug)
  IN /\ last' = [Result(op, modelName, "threw", 0, 0, h.error, reached, failure)
                    EXCEPT !.operation = operation]
     /\ errOut' = h.logged

\* try { Model = this._getModel(modelName); await Model.<call>(..) }
\* catch (error) { throw this._handleError(operation, error) }
Crud(op, modelName, operation, out) ==
  /\ UNCHANGED <<models, schemas, heap, mongooseModels, handed, debug, extCalls>>
  /\ IF ~ModelsHas(models, modelName)
       THEN Caught(op, modelName, operation, AsFailure(GetModelError(modelName)),
                   FALSE, NoFailure)
       ELSE IF out.kind = "ok"
         THEN /\ last' = [Result(op, modelName, "returned", 0, 0, NoError, TRUE,
                                  NoFailure) EXCEPT !.operation = operation]
              /\ errOut' = << >>
         ELSE Caught(op, modelName, operation, out, TRUE, out)

Create ==
  \E n \in ModelNames, out \in StoreOutcomes :
    /\ Crud("create", n, "create " \o n, out)
    /\ UNCHANGED <<job, connection, tx, doc, now, txn>>
Find ==
  \E n \in ModelNames, out \in StoreOutcomes :
    /\ Crud("find", n, "find " \o n, out)
    /\ UNCHANGED <<job, connection, tx, doc, now, txn>>
FindOne ==
  \E n \in ModelNames, out \in StoreOutcomes :
    /\ Crud("findOne", n, "find one " \o n, out)
    /\ UNCHANGED <<job, connection, tx, doc, now, txn>>
FindById ==
  \E n \in ModelNames, out \in StoreOutcomes :
    /\ Crud("findById", n, "find " \o n \o " by ID", out)
    /\ UNCHANGED <<job, connection, tx, doc, now, txn>>
Update ==
  \E n \in ModelNames, out \in StoreOutcomes :
    /\ Crud("update", n, "update " \o n, out)
    /\ UNCHANGED <<job, connection, tx, doc, now, txn>>
UpdateById ==
  \E n \in ModelNames, out \in StoreOutcomes :
    /\ Crud("updateById", n, "update " \o n \o " by ID", out)
    /\ UNCHANGED <<job, connection, tx, doc, now, txn>>
Delete ==
  \E n \in ModelNames, out \in StoreOutcomes :
    /\ Crud("delete", n, "delete " \o n, out)
    /\ UNCHANGED <<job, connection, tx, doc, now, txn>>
DeleteById ==
  \E n \in ModelNames, out \in StoreOutcomes :
    /\ Crud("deleteById", n, "delete " \o n \o " by ID", out)
    /\ UNCHANGED <<job, connection, tx, doc, now, txn>>
Count ==
  \E n \in ModelNames, out \in StoreOutcomes :
    /\ Crud("count", n, "count " \o n, out)
    /\ UNCHANGED <<job, connection, tx, doc, now, txn>>
Distinct ==
  \E n \in ModelNames, out \in StoreOutcomes :
    /\ Crud("distinct", n, "distinct " \o n, out)
    /\ UNCHANGED <<job, connection, tx, doc, now, txn>>
Aggregate ==
  \E n \in ModelNames, out \in StoreOutcomes :
    /\ Crud("aggregate", n, "aggregate " \o n, out)
    /\ UNCHANGED <<job, connection, tx, doc, now, txn>>
Exists ==
  \E n \in ModelNames, out \in StoreOutcomes :
    /\ Crud("exists", n, "check exists " \o n, out)
    /\ UNCHANGED <<job, connection, tx, doc, now, txn>>

\* createIndex: _getModel is called before the try block
CreateIndex ==
  \E n \in ModelNames, out \in StoreOutcomes :
    /\ UNCHANGED <<models, schemas, heap, mongooseModels, handed, debug, extCalls>>
    /\ UNCHANGED <<job, connection, tx, doc, now, txn>>
    /\ IF ~ModelsHas(models, n)
         THEN /\ last' = Threw("createIndex", n, GetModelError(n))
              /\ errOut' = << >>
         ELSE IF out.kind = "ok"
           THEN /\ last' = Result("createIndex", n, "returned", 0, 0, NoError, TRUE,
                                  NoFailure)
                /\ errOut' = << >>
           ELSE Caught("createIndex", n, "create index for " \o n, out, TRUE, out)

----------------------------------------------------------------------------
(* Connection lifecycle: connect, disconnect, dropDatabase, clearAll *)

\* connect() calls that may succeed (each registers its event handlers).
MaxConnects == 2

\* What an awaited driver call may reject with.
DriverFailures ==
  {Failure("object", 0, "MongoNetworkError", "connect ECONNREFUSED",
           FALSE, << >>, FALSE, << >>),
   Failure("object", DuplicateKeyCode, "MongoServerError", "store failure",
           FALSE, << >>, FALSE, << >>)}
DriverOutcomes == {StoreOk} \cup DriverFailures

\* An error object thrown on to the caller as it is.
Raw(error) == ErrRec(error.name, error.message, FALSE, NoFailure)

\* _simplifyError(error)
SimplifyError(error) ==
  IF error.code = DuplicateKeyCode
    THEN ErrRec("Error", "Data already exists. Please use unique values.",
                FALSE, NoFailure)
  ELSE IF error.name = "ValidationError"
    THEN ErrRec("Error", "Please check your input data.", FALSE, NoFailure)
  ELSE Raw(error)

\* A lifecycle call reaches an await: it goes on in a later step.
Await(call, at) == pending' = [call |-> call, at |-> at]

\* connect(uri, options) up to await mongoose.connect(..)
ConnectCall ==
  /\ pending = Idle
  /\ driver.handlers < MaxConnects
  /\ \E dbg \in BOOLEAN : debug' = dbg
  /\ Await("connect", 0)
  /\ UNCHANGED <<models, schemas, heap, mongooseModels, handed, extCalls,
                 last, errOut, job, isConnected, driver, tx, doc, now, txn>>

\* connect: mongoose.connect has settled.  On success isConnected is set and
\* the three connection handlers are registered; on failure the catch block
\* logs and throws the simplified error.
ConnectSettle ==
  /\ pending.call = "connect"
  /\ pending' = Idle
  /\ \E out \in DriverOutcomes :
       IF out.kind = "ok"
         THEN /\ isConnected' = TRUE
              /\ driver' = [readyState |-> "connected",
                            handlers |-> driver.handlers + 1,
                            reconnecting |-> FALSE]
              /\ last' = Returned("connect", Unset, 0, 0)
              /\ errOut' = << >>
         ELSE /\ last' = Threw("connect", Unset, SimplifyError(out))
              /\ errOut' = ErrorOut(debug, "(x) Connection Failed: " \o out.message)
              /\ UNCHANGED <<isConnected, driver>>
  /\ UNCHANGED <<models, schemas, heap, mongooseModels, handed, extCalls,
                 debug, job, tx, doc, now, txn>>

\* disconnect() up to await mongoose.disconnect(), or to its end when
\* isConnected is false
DisconnectCall ==
  /\ pending = Idle
  /\ IF isConnected
       THEN /\ Await("disconnect", 0)
            /\ UNCHANGED <<last, errOut>>
       ELSE /\ last' = Returned("disconnect", Unset, 0, 0)
            /\ errOut' = << >>
            /\ UNCHANGED pending
  /\ UNCHANGED <<models, schemas, heap, mongooseModels, handed, extCalls,
                 debug, job, isConnected, driver, tx, doc, now, txn>>

\* disconnect: mongoose.disconnect has settled.
DisconnectSettle ==
  /\ pending.call = "disconnect"
  /\ pending' = Idle
  /\ \E out \in DriverOutcomes :
       IF out.kind = "ok"
         THEN /\ isConnected' = FALSE
              /\ driver' = [driver EXCEPT !.readyState = "disconnected",
                                          !.reconnecting = FALSE]
              /\ last' = Returned("disconnect", Unset, 0, 0)
         ELSE /\ last' = Threw("disconnect", Unset, Raw(out))
              /\ UNCHANGED <<isConnected, driver>>
  /\ errOut' = << >>
  /\ UNCHANGED <<models, schemas, heap, mongooseModels, handed, extCalls,
                 debug, job, tx, doc, now, txn>>

\* The driver loses its connection and emits 'disconnected': every handler
\* connect() registered sets isConnected to false.
DriverDisconnected ==
  /\ driver.readyState = "connected"
  /\ driver' = [driver EXCEPT !.readyState = "disconnected", !.reconnecting = TRUE]
  /\ isConnected' = IF driver.handlers > 0 THEN FALSE ELSE isConnected
  /\ UNCHANGED <<models, schemas, heap, mongooseModels, handed, extCalls,
                 debug, last, errOut, job, pending, tx, doc, now, txn>>

\* The driver reconnects by itself and emits 'connected': the handlers only
\* log.
DriverConnected ==
  /\ driver.reconnecting
  /\ driver' = [driver EXCEPT !.readyState = "connected", !.reconnecting = FALSE]
  /\ UNCHANGED <<models, schemas, heap, mongooseModels, handed, extCalls,
                 debug, last, errOut, job, isConnected, pending, tx, doc, now, txn>>

\* dropDatabase() up to await ..dropDatabase(), or to its end when
\* isConnected is false
DropDatabaseCall ==
  /\ pending = Idle
  /\ IF isConnected
       THEN /\ Await("dropDatabase", 0)
            /\ UNCHANGED <<last, errOut>>
       ELSE /\ last' = Returned("dropDatabase", Unset, 0, 0)
            /\ errOut' = << >>
            /\ UNCHANGED pending
  /\ UNCHANGED <<models, schemas, heap, mongooseModels, handed, extCalls,
                 debug, job, isConnected, driver, tx, doc, now, txn>>

\* dropDatabase that also empties this.models and this.schemas.
DropDatabaseForgetsModels ==
  /\ pending.call = "dropDatabase"
  /\ pending' = Idle
  /\ \E out \in DriverOutcomes :
       last' = IF out.kind = "ok" THEN Returned("dropDatabase", Unset, 0, 0)
               ELSE Threw("dropDatabase", Unset, Raw(out))
  /\ errOut' = << >>
  /\ models' = [n \in ModelNames |-> 0]
  /\ schemas' = [n \in ModelNames |-> 0]
  /\ UNCHANGED <<heap, mongooseModels, handed, extCalls,
                 debug, job, isConnected, driver, tx, doc, now, txn>>

\* dropDatabase: the driver call has settled.
DropDatabaseSettle ==
  /\ pending.call = "dropDatabase"
  /\ pending' = Idle
  /\ \E out \in DriverOutcomes :
       last' = IF out.kind = "ok" THEN Returned("dropDatabase", Unset, 0, 0)
               ELSE Threw("dropDatabase", Unset, Raw(out))
  /\ errOut' = << >>
  /\ UNCHANGED <<models, schemas, heap, mongooseModels, handed, extCalls,
                 debug, job, isConnected, driver, tx, doc, now, txn>>

\* clearAll() up to its first await, or to its end when isConnected is false.
\* The loop iterates this.models, a Map, in insertion order; at is the
\* position of the iterator.
ClearAllCall ==
  /\ pending = Idle
  /\ IF isConnected
       THEN /\ Await("clearAll", 1)
            /\ UNCHANGED <<last, errOut>>
       ELSE /\ last' = Returned("clearAll", Unset, 0, 0)
            /\ errOut' = << >>
            /\ UNCHANGED pending
  /\ UNCHANGED <<models, schemas, heap, mongooseModels, handed, extCalls,
                 debug, job, isConnected, driver, tx, doc, now, txn>>

\* clearAll: one turn of the loop, await this.delete(modelName, {}), or the
\* end of the loop.  A delete that throws ends clearAll with that error.
ClearAllStep ==
  /\ pending.call = "clearAll"
  /\ UNCHANGED <<job, isConnected, driver, tx, doc, now, txn>>
  /\ IF pending.at > Len(mongooseModels)
       THEN /\ last' = Returned("clearAll", Unset, 0, 0)
            /\ errOut' = << >>
            /\ pending' = Idle
            /\ UNCHANGED <<models, schemas, heap, mongooseModels, handed,
                           debug, extCalls>>
       ELSE \E out \in DriverOutcomes :
              LET modelName == mongooseModels[pending.at].name
              IN /\ Crud("clearAll", modelName, "delete " \o modelName, out)
                 /\ pending' = IF out.kind = "ok"
                                 THEN [pending EXCEPT !.at = @ + 1] ELSE Idle

\* create / delete with the outcomes a driver call may have.
CreateDoc ==
  \E n \in ModelNames, out \in DriverOutcomes :
    /\ Crud("create", n, "create " \o n, out)
    /\ UNCHANGED <<job, connection, tx, doc, now, txn>>
DeleteDocs ==
  \E n \in ModelNames, out \in DriverOutcomes :
    /\ Crud("delete", n, "delete " \o n, out)
    /\ UNCHANGED <<job, connection, tx, doc, now, txn>>

----------------------------------------------------------------------------
(* Sessions and transactions: startSession, transaction *)

\* The message of the error startSession throws itself.
NotConnected == "Not connected to database"

\* What the callback may do: resolve, reject with an Error of its own, or
\* reject with null.
CallbackOutcomes == {"resolved", "callback failed", "null"}

\* A call of startSession() or transaction(callback): where it stands (pc),
\* how many sessions mongoose.startSession() has given it, whether the
\* callback was invoked and how it settled, the operations invoked on the
\* session in order, the value caught by the catch block, and how the call
\* ended.  Errors are told apart by their messages.
Txn(fn, pc) ==
  [fn |-> fn, pc |-> pc, sessions |-> 0, called |-> FALSE, cb |-> Unset,
   ops |-> << >>, caught |-> Unset, outcome |-> "pending", value |-> Unset,
   error |-> Unset]

\* startSession() without its test of isConnected.
StartSessionUnchecked(connected) == "await"

\* startSession() up to its await: throws when isConnected is false.
StartSession(connected) == IF ~connected THEN "threw" ELSE "await"

\* The call ends by throwing error.
TxnThrew(t, error) == [t EXCEPT !.pc = "done", !.outcome = "threw", !.error = error]

\* The call ends by returning value.
TxnReturned(t, value) ==
  [t EXCEPT !.pc = "done", !.outcome = "returned", !.value = value]

\* A finally block that does nothing.
FinallySkipped(ops) == ops

\* finally { session.endSession() }
Finally(ops) == Append(ops, "endSession")

\* A call of fn up to await mongoose.startSession(), or to the throw.
Called(fn, connected) ==
  IF StartSession(connected) = "threw"
    THEN TxnThrew(Txn(fn, "call"), NotConnected)
    ELSE Txn(fn, "startSession")

\* startSession() up to its await
StartSessionCall ==
  /\ txn.pc \in {"none", "done"}
  /\ txn' = Called("startSession", isConnected)
  /\ UNCHANGED <<models, schemas, heap, mongooseModels, handed, debug, extCalls,
                 last, errOut, job, connection, tx, doc, now>>

\* transaction(callback) up to const session = await this.startSession()
TransactionCall ==
  /\ txn.pc \in {"none", "done"}
  /\ txn' = Called("transaction", isConnected)
  /\ UNCHANGED <<models, schemas, heap, mongooseModels, handed, debug, extCalls,
                 last, errOut, job, connection, tx, doc, now>>

\* mongoose.startSession() has settled: startSession() returns the session or
\* throws the driver's error; transaction() goes on to
\* session.startTransaction() and invokes the callback.
SessionSettle ==
  /\ txn.pc = "startSession"
  /\ \E ok \in BOOLEAN :
       txn' = IF ~ok THEN TxnThrew(txn, "startSession failed")
              ELSE IF txn.fn = "startSession"
                THEN TxnReturned([txn EXCEPT !.sessions = 1], "session")
              ELSE [txn EXCEPT !.sessions = 1, !.pc = "callback", !.called = TRUE,
                               !.ops = << "startTransaction" >>]
  /\ UNCHANGED <<models, schemas, heap, mongooseModels, handed, debug, extCalls,
                 last, errOut, job, connection, tx, doc, now>>

\* The callback has settled: on success commitTransaction is invoked, on
\* failure the catch block invokes abortTransaction.
CallbackSettle ==
  /\ txn.pc = "callback"
  /\ \E cb \in CallbackOutcomes :
       txn' = IF cb = "resolved"
                THEN [txn EXCEPT !.cb = cb, !.pc = "commit",
                                 !.ops = Append(@, "commitTransaction")]
                ELSE [txn EXCEPT !.cb = cb, !.pc = "abort", !.caught = cb,
                                 !.ops = Append(@, "abortTransaction")]
  /\ UNCHANGED <<models, schemas, heap, mongooseModels, handed, debug, extCalls,
                 last, errOut, job, connection, tx, doc, now>>

\* commitTransaction has settled: on success the callback's result is
\* returned through the finally block; a rejection is caught by the same
\* catch block, which invokes abortTransaction.
CommitSettle ==
  /\ txn.pc = "commit"
  /\ \E ok \in BOOLEAN :
       txn' = IF ok
                THEN TxnReturned([txn EXCEPT !.ops = Finally(@)], "result")
                ELSE [txn EXCEPT !.pc = "abort", !.caught = "commit failed",
                                 !.ops = Append(@, "abortTransaction")]
  /\ UNCHANGED <<models, schemas, heap, mongooseModels, handed, debug, extCalls,
                 last, errOut, job, connection, tx, doc, now>>

\* abortTransaction has settled: a rejection leaves the catch block with the
\* abort's error; otherwise error.message is read for the log (a TypeError
\* when the value caught is null) and the value caught is thrown on.  The
\* finally block runs in each case.
AbortSettle ==
  /\ txn.pc = "abort"
  /\ \E ok \in BOOLEAN :
       LET ended == [txn EXCEPT !.ops = Finally(@)]
       IN /\ txn' = IF ~ok THEN TxnThrew(ended, "abort failed")
                    ELSE IF txn.caught = "null" THEN TxnThrew(ended, "TypeError")
                    ELSE TxnThrew(ended, txn.caught)
          /\ errOut' = IF ok /\ txn.caught # "null"
                         THEN ErrorOut(debug, "(x) Transaction aborted: "
                                                \o txn.caught)
                         ELSE errOut
  /\ UNCHANGED <<models, schemas, heap, mongooseModels, handed, debug, extCalls,
                 last, job, connection, tx, doc, now>>

----------------------------------------------------------------------------
(* Transactions with retry: withTransaction, withRetryTransaction *)

\* Largest maxRetries argument tried.
MaxRetries == 3

\* An error value: what kind it is and which attempt raised it.
TxError(kind, attempt) == [kind |-> kind, attempt |-> attempt]
NoTxError == TxError(Unset, 0)

\* How a transaction may go once it has a session: the callback resolves and
\* the commit succeeds, or an error carrying writeConcernError, an error
\* without it, or null is thrown.
TxOutcomes == {"committed", "transient", "permanent", "null"}

\* withTransaction(callback): startSession throws when isConnected is false;
\* a thrown value goes through the catch block, which reads error.message
\* and so throws a TypeError of its own when the value is null.
WithTransaction(connected, outcome, attempt) ==
  IF ~connected THEN [committed |-> FALSE, error |-> TxError("notConnected", attempt)]
  ELSE IF outcome = "committed" THEN [committed |-> TRUE, error |-> NoTxError]
  ELSE IF outcome = "null" THEN [committed |-> FALSE, error |-> TxError("TypeError", attempt)]
  ELSE [committed |-> FALSE, error |-> TxError(outcome, attempt)]

\* error.writeConcernError
WriteConcernError(error) == error.kind = "transient"

\* withRetryTransaction(callback, maxRetries): the loop is entered with
\* attempt = 1; when the loop test fails the function ends without a return
\* statement.
RetryCall ==
  /\ tx.pc \in {"none", "returned", "threw"}
  /\ \E maxRetries \in 0..MaxRetries :
       tx' = [pc |-> IF 1 <= maxRetries THEN "attempt" ELSE "returned",
              maxRetries |-> maxRetries, attempt |-> 1, runs |-> 0,
              committed |-> FALSE, result |-> "undefined",
              error |-> NoTxError, lastError |-> NoTxError]
  /\ UNCHANGED <<models, schemas, heap, mongooseModels, handed, debug, extCalls,
                 last, errOut, job, connection, doc, now, txn>>

\* One turn of the loop: return await this.withTransaction(callback), and
\* the catch block.
RetryAttempt ==
  /\ tx.pc = "attempt"
  /\ \E outcome \in TxOutcomes :
       LET r == WithTransaction(isConnected, outcome, tx.attempt)
           ran == [tx EXCEPT !.runs = @ + 1, !.lastError = r.error]
       IN tx' = IF r.committed
                  THEN [ran EXCEPT !.pc = "returned", !.committed = TRUE,
                                   !.result = "result"]
                ELSE IF tx.attempt = tx.maxRetries \/ ~WriteConcernError(r.error)
                  THEN [ran EXCEPT !.pc = "threw", !.error = r.error]
                ELSE [ran EXCEPT !.pc = "waiting"]
  /\ UNCHANGED <<models, schemas, heap, mongooseModels, handed, debug, extCalls,
                 last, errOut, job, connection, doc, now, txn>>

\* The timer of 100 * attempt ms fires: attempt++ and the loop test.
RetryWake ==
  /\ tx.pc = "waiting"
  /\ tx' = [tx EXCEPT !.attempt = @ + 1,
                      !.pc = IF tx.attempt + 1 <= tx.maxRetries
                               THEN "attempt" ELSE "returned"]
  /\ UNCHANGED <<models, schemas, heap, mongooseModels, handed, debug, extCalls,
                 last, errOut, job, connection, doc, now, txn>>

----------------------------------------------------------------------------
(* Documents and the age virtual: _addCommonVirtuals *)

\* Milliseconds the clock may advance.
MaxTicks == 2

\* Arithmetic on times written hi * 1000000 + lo.
Norm(hi, lo) == Ms(hi + (lo \div Million), lo % Million)
Plus(a, b) == Norm(a.hi + b.hi, a.lo + b.lo)
Minus(a, b) == Norm(a.hi - b.hi, a.lo - b.lo)
TimesMs(k, a) == Norm(k * a.hi, k * a.lo)
AtMost(a, b) == a.hi < b.hi \/ (a.hi = b.hi /\ a.lo <= b.lo)

\* A year of 365 days: 31536000000
YearMs365 == Ms(31536, 0)

\* 365.25 * 24 * 60 * 60 * 1000 = 31557600000
YearMs == Ms(31557, 600000)

RECURSIVE FloorDiv(_, _)
\* Math.floor(d / y) for y > 0, by repeated subtraction
FloorDiv(d, y) ==
  IF d.hi < 0 THEN FloorDiv(Plus(d, y), y) - 1
  ELSE IF AtMost(y, d) THEN FloorDiv(Minus(d, y), y) + 1
  ELSE 0

\* A date field without a value.
NoDate == Ms(-1, -1)

\* A string is the sequence of its characters; this is a string field
\* without a value (undefined).
Undefined == << Unset >>

\* this.birthDate || this.dob (a Date object is always truthy)
Birth(d) == IF d.birthDate # NoDate THEN d.birthDate ELSE d.dob

\* A password value: the text that was assigned, and the times of the
\* hashed_.._<time> wrappers put around it, innermost first.
Password(plain, stamps) == [plain |-> plain, stamps |-> stamps]
NoPassword == Password(Unset, << >>)

\* The age getter, called on document d at time t.
AgeGetter(d, t) ==
  IF d.birthDate = NoDate /\ d.dob = NoDate
    THEN [null |-> TRUE, years |-> 0]
    ELSE [null |-> FALSE, years |-> FloorDiv(Minus(t, Birth(d)), YearMs)]

\* A new document of the Schema object ref, nothing set.
Document(ref) ==
  [pc |-> "live", schema |-> ref, birthDate |-> NoDate, dob |-> NoDate,
   read |-> "none", readAt |-> StartTime, age |-> [null |-> TRUE, years |-> 0],
   name |-> Undefined, title |-> Undefined, slug |-> Undefined,
   password |-> NoPassword, modified |-> {}, isNew |-> TRUE,
   saves |-> 0, lastSave |-> "none"]

\* The birth dates tried: 30 years of 365.25 days before the start time, one
\* millisecond before and after that, one such year and a millisecond less
\* than one, and a day in the future.
ThirtyYearsAgo == Minus(StartTime, TimesMs(30, YearMs))
BirthDates ==
  {ThirtyYearsAgo, Plus(ThirtyYearsAgo, Ms(0, 1)), Minus(ThirtyYearsAgo, Ms(0, 1)),
   Minus(StartTime, YearMs), Plus(Minus(StartTime, YearMs), Ms(0, 1)),
   Plus(StartTime, Ms(86, 400000))}

\* A value given for a date path: kept when the schema has the path, dropped
\* (strict mode) when it has not.
Kept(s, path, value) == IF path \in s.paths THEN value ELSE NoDate

\* new Model({ birthDate, dob }) for a compiled schema
NewPerson ==
  \E ref \in DOMAIN heap, b \in BirthDates \cup {NoDate}, d \in BirthDates \cup {NoDate} :
    /\ doc' = [Document(ref) EXCEPT !.birthDate = Kept(heap[ref], "birthDate", b),
                                    !.dob = Kept(heap[ref], "dob", d)]
    /\ UNCHANGED <<models, schemas, heap, mongooseModels, handed, debug, extCalls,
                   last, errOut, job, connection, tx, now, txn>>

\* doc.age on a document whose schema has the age virtual
ReadAge ==
  /\ doc.pc = "live"
  /\ HasVirtual(heap[doc.schema], "age")
  /\ doc' = [doc EXCEPT !.read = "age", !.readAt = now, !.age = AgeGetter(doc, now)]
  /\ UNCHANGED <<models, schemas, heap, mongooseModels, handed, debug, extCalls,
                 last, errOut, job, connection, tx, now, txn>>

\* A millisecond passes.
Tick ==
  /\ now.lo < MaxTicks
  /\ now' = Plus(now, Ms(0, 1))
  /\ UNCHANGED <<models, schemas, heap, mongooseModels, handed, debug, extCalls,
                 last, errOut, job, connection, tx, doc, txn>>

----------------------------------------------------------------------------
(* Saving documents: the pre-save hooks of _addAutoMiddleware *)

\* Characters a name or title may have.
MaxLen == 3
\* save() calls on one document.
MaxSaves == 3

\* The characters tried, and what toLowerCase makes of each.
Alphabet == {"A", "b", "1", " ", "-"}
ToLowerCase(c) == IF c = "A" THEN "a" ELSE c

\* [a-z0-9] among the characters in use
AlphaNumeric(c) == c \in {"a", "b", "1"}

\* Whether a string passes an if (value) test.
TruthyText(t) == t # Undefined /\ t # << >>

\* .replace(/-+/g, '-') left out.
KeepRuns(chars) == chars

RECURSIVE CollapseRuns(_)
\* .replace(/-+/g, '-')
CollapseRuns(chars) ==
  IF Len(chars) < 2 THEN chars
  ELSE IF chars[1] = "-" /\ chars[2] = "-" THEN CollapseRuns(Tail(chars))
  ELSE << chars[1] >> \o CollapseRuns(Tail(chars))

\* .replace(/^-|-$/g, ''): one '-' off the front, one off the end
TrimDashes(chars) ==
  LET front == IF Len(chars) > 0 /\ chars[1] = "-" THEN Tail(chars) ELSE chars
  IN IF Len(front) > 0 /\ front[Len(front)] = "-"
       THEN SubSeq(front, 1, Len(front) - 1) ELSE front

\* source.toLowerCase().replace(/[^a-z0-9]/g, '-').replace(/-+/g, '-')
\*   .replace(/^-|-$/g, '')
Slugify(source) ==
  LET lower == [i \in DOMAIN source |-> ToLowerCase(source[i])]
      dashed == [i \in DOMAIN lower |->
                   IF AlphaNumeric(lower[i]) THEN lower[i] ELSE "-"]
  IN TrimDashes(CollapseRuns(dashed))

\* The slug hook on document d.
AutoSlug(d) ==
  IF "name" \in d.modified \/ "title" \in d.modified
    THEN LET source == IF TruthyText(d.name) THEN d.name ELSE d.title
         IN IF TruthyText(source) /\ ~TruthyText(d.slug)
              THEN [d EXCEPT !.slug = Slugify(source)]
              ELSE d
    ELSE d

\* The password hook on document d at time t.
AutoHashPassword(d, t) ==
  IF "password" \notin d.modified THEN d
  ELSE [d EXCEPT !.password = Password(@.plain, Append(@.stamps, t))]

RECURSIVE RunPreSave(_, _, _, _)
\* The pre('save') hooks of the schema, in the order they were attached.
RunPreSave(d, hooks, i, t) ==
  IF i > Len(hooks) THEN d
  ELSE LET h == hooks[i]
           after == IF h.when = "pre" /\ h.event = "save" /\ h.fn = "autoSlug"
                      THEN AutoSlug(d)
                    ELSE IF h.when = "pre" /\ h.event = "save"
                              /\ h.fn = "autoHashPassword"
                      THEN AutoHashPassword(d, t)
                    ELSE d
       IN RunPreSave(after, hooks, i + 1, t)

\* The strings up to MaxLen characters.
Texts == UNION {[1..n -> Alphabet] : n \in 0..MaxLen}

\* A value given for a string path: kept when the schema has the path.
KeptText(s, path, value) == IF path \in s.paths THEN value ELSE Undefined

\* The paths of a new document that count as modified: those given a value.
Given(d) ==
  {f \in {"name", "title", "password"} :
     CASE f = "name" -> d.name # Undefined
       [] f = "title" -> d.title # Undefined
       [] f = "password" -> d.password # NoPassword}

\* model(name, ..) for the models whose documents are saved: one with a
\* name path, one with a title path, one with neither but a password path.
ModelForDocuments ==
  \E definition \in {DQuick, DMalformed, DUser} : Model("Post", definition, TRUE)

\* new Model({ name, title }), and doc.slug = slug: the one document followed
NewArticle ==
  \E n \in ModelNames, name \in Texts \cup {Undefined},
     title \in {Undefined, << "A", "-", "1" >>},
     slug \in {Undefined, << >>, << "b" >>} :
    /\ doc = NoDoc
    /\ models[n] # 0
    /\ LET s == heap[schemas[n]]
           d == [Document(schemas[n]) EXCEPT !.name = KeptText(s, "name", name),
                                             !.title = KeptText(s, "title", title),
                                             !.slug = slug]
       IN doc' = [d EXCEPT !.modified = Given(d)]
    /\ UNCHANGED <<models, schemas, heap, mongooseModels, handed, debug, extCalls,
                   last, errOut, job, connection, tx, now, txn>>

\* doc.title = value on a document whose schema has the path
Retitle ==
  /\ doc.pc = "live"
  /\ "title" \in heap[doc.schema].paths
  /\ \E title \in {<< " ", "b" >>} :
       /\ title # doc.title
       /\ doc' = [doc EXCEPT !.title = title, !.modified = @ \cup {"title"}]
  /\ UNCHANGED <<models, schemas, heap, mongooseModels, handed, debug, extCalls,
                 last, errOut, job, connection, tx, now, txn>>

\* new Model({ password })
NewAccount ==
  \E n \in ModelNames, plain \in {Unset, "secret"} :
    /\ models[n] # 0
    /\ LET s == heap[schemas[n]]
           d == [Document(schemas[n]) EXCEPT
                   !.password = IF "password" \in s.paths
                                  THEN Password(plain, << >>) ELSE NoPassword]
       IN doc' = [d EXCEPT !.modified = Given(d)]
    /\ UNCHANGED <<models, schemas, heap, mongooseModels, handed, debug, extCalls,
                   last, errOut, job, connection, tx, now, txn>>

\* doc.password = value
SetPassword ==
  /\ doc.pc = "live"
  /\ "password" \in heap[doc.schema].paths
  /\ \E plain \in {"secret", "changed"} :
       /\ Password(plain, << >>) # doc.password
       /\ doc' = [doc EXCEPT !.password = Password(plain, << >>),
                             !.modified = @ \cup {"password"}]
  /\ UNCHANGED <<models, schemas, heap, mongooseModels, handed, debug, extCalls,
                 last, errOut, job, connection, tx, now, txn>>

\* doc.save(): the pre-save hooks run, then the store write succeeds (the
\* document is no longer new and nothing counts as modified) or fails (the
\* document keeps what the hooks did and what counted as modified).
Save ==
  /\ doc.pc = "live"
  /\ doc.saves < MaxSaves
  /\ \E ok \in BOOLEAN :
       LET d == RunPreSave(doc, heap[doc.schema].hooks, 1, now)
       IN doc' = IF ok
                   THEN [d EXCEPT !.modified = {}, !.isNew = FALSE,
                                  !.saves = @ + 1, !.lastSave = "ok"]
                   ELSE [d EXCEPT !.saves = @ + 1, !.lastSave = "failed"]
  /\ UNCHANGED <<models, schemas, heap, mongooseModels, handed, debug, extCalls,
                 last, errOut, job, connection, tx, now, txn>>

----------------------------------------------------------------------------
(* The compiler's functions called directly, each on one input *)

\* Fields a descriptor handed to _convertToFullSchema may have.
MaxFields == 2

\* The tokens tried: every base type with every marker, the named tokens of
\* the README's reference table, misspelt and empty strings, and property
\* names every object has.
Bases ==
  {"string", "number", "boolean", "date", "array", "object", "buffer",
   "decimal", "map", "mixed"}
Markers == {"", "?", "!", "!!", "+"}
MarkerTokens == {b \o m : b \in Bases, m \in Markers}
ReferenceTokens ==
  {"email", "email!!", "password", "url", "phone", "color", "userRef", "postRef",
   "productRef", "orderRef", "categoryRef", "point", "location", "object+"}
OtherStrings == {"strnig", "", "String", "text"}
Tokens == MarkerTokens \cup ReferenceTokens \cup OtherStrings \cup DOMAIN inherited

\* The partial descriptors tried, one per combination of property values.
Configs ==
  {[Config EXCEPT !.type = t, !.hasEnum = en[1], !.enum = en[2],
                  !.validate = v, !.min = mn, !.max = mx, !.minlength = ml,
                  !.match = ma, !.lowercase = lc, !.trim = tr] :
     t \in {Unset, "String", "Number", "'string'", "'number'", "'decimal'",
            "'constructor'"},
     en \in {<< FALSE, << >> >>, << TRUE, << >> >>,
             << TRUE, << "Electronics", "Clothing", "Books" >> >>},
     v \in {Unset, "userValidator"},
     mn \in {Unset, "0", "5", "[0, 'Price cannot be negative']"},
     mx \in {Unset, "100"},
     ml \in {Unset, "3"},
     ma \in {Unset, "userRegex"},
     lc \in {Unset, "true", "false"},
     tr \in {Unset, "true", "false"}}
ConfigFieldNames == {"email", "userEmail", "title"}

\* The raw entries and field names the descriptors tried are made of.
RawEntries ==
  {Tok("string!"), Tok("email"), Tok("productRef"), ListOf("string"),
   ListOfMapping(<< F("product", Tok("productRef")) >>), BareCtor("String"),
   [Config EXCEPT !.type = "'string'", !.required = "true"],
   [Config EXCEPT !.type = "String", !.min = "5"],
   [Config EXCEPT !.sub = << F("street", Tok("string!")) >>]}
DefinitionFieldNames == {"name", "userEmail", "address", "items"}
Definitions ==
  {d \in UNION {[1..n -> {F(f, r) : f \in DefinitionFieldNames, r \in RawEntries}] :
                  n \in 1..MaxFields} :
     \A i, j \in DOMAIN d : d[i].field = d[j].field => i = j}

\* A call that is about to be made: the function, the field name (for
\* _processFieldConfig) and the argument.
Call(fn, field, input) ==
  [pc |-> "ready", fn |-> fn, field |-> field, input |-> input]
Calls ==
  {Call("_parseSmartShortcut", Unset, t) : t \in Tokens}
  \cup {Call("_processFieldConfig", f, c) : f \in ConfigFieldNames, c \in Configs}
  \cup {Call("_convertToFullSchema", Unset, d) : d \in Definitions}

\* The instance after construction, with one call chosen.
InitCall == Constructed /\ job \in Calls

\* The call returns output.
Done(output) ==
  /\ job' = [pc |-> "done", fn |-> job.fn, field |-> job.field,
             input |-> job.input, output |-> output]
  /\ UNCHANGED <<models, schemas, heap, mongooseModels, handed, debug, extCalls,
                 last, errOut, connection, tx, doc, now, txn>>

ParseToken ==
  /\ job.pc = "ready" /\ job.fn = "_parseSmartShortcut"
  /\ Done(ParseSmartShortcut(job.input))

ProcessField ==
  /\ job.pc = "ready" /\ job.fn = "_processFieldConfig"
  /\ Done(ProcessFieldConfig(job.field, job.input))

ConvertDefinition ==
  /\ job.pc = "ready" /\ job.fn = "_convertToFullSchema"
  /\ Done(ConvertToFullSchema(job.input))

----------------------------------------------------------------------------
(* Specifications *)

\* Registry, compiler and feature synthesis.
Next == Schema \/ ModelFromDescriptor \/ ModelFromSchema

Spec == Init /\ [][Next]_vars

\* Registry and schema extensions.
NextExt ==
  \/ ModelFromDescriptor
  \/ Virtual \/ Static \/ Method \/ Query \/ Pre \/ Post \/ Plugin

SpecExt == Init /\ [][NextExt]_vars

\* Registry and CRUD facade with the error normalizer.
NextCrud ==
  \/ ModelQuickStart \/ SetDebug
  \/ Create \/ Find \/ FindOne \/ FindById \/ Update \/ UpdateById
  \/ Delete \/ DeleteById \/ Count \/ Distinct \/ Aggregate \/ Exists
  \/ CreateIndex

SpecCrud == Init /\ [][NextCrud]_vars

\* Registry and connection lifecycle.
NextLife ==
  \/ ConnectCall \/ ConnectSettle \/ DisconnectCall \/ DisconnectSettle
  \/ DriverDisconnected \/ DriverConnected
  \/ DropDatabaseCall \/ DropDatabaseSettle
  \/ ClearAllCall \/ ClearAllStep
  \/ ModelQuickStart \/ Plugin \/ CreateDoc \/ DeleteDocs

SpecLife == Init /\ [][NextLife]_vars

\* Transactions with retry, on a connection that comes and goes.
NextTx ==
  \/ RetryCall \/ RetryAttempt \/ RetryWake
  \/ ConnectCall \/ ConnectSettle \/ DisconnectCall \/ DisconnectSettle
  \/ DriverDisconnected \/ DriverConnected

SpecTx == Init /\ [][NextTx]_vars

\* Compiled schemas, documents of them and the age virtual.
NextAge == Schema \/ NewPerson \/ ReadAge \/ Tick

SpecAge == Init /\ [][NextAge]_vars

\* Sessions and transactions on a connection that comes and goes.
NextSession ==
  \/ ConnectCall \/ ConnectSettle \/ DisconnectCall \/ DisconnectSettle
  \/ DriverDisconnected \/ DriverConnected
  \/ DropDatabaseCall \/ DropDatabaseSettle \/ ClearAllCall \/ ClearAllStep
  \/ StartSessionCall \/ TransactionCall
  \/ SessionSettle \/ CallbackSettle \/ CommitSettle \/ AbortSettle

SpecSession == Init /\ [][NextSession]_vars

\* Documents with a name or title and the slug hook.
NextSlug == ModelForDocuments \/ NewArticle \/ Retitle \/ Save

SpecSlug == Init /\ [][NextSlug]_vars

\* Documents with a password and the password hook.
NextPassword == ModelForDocuments \/ NewAccount \/ SetPassword \/ Save \/ Tick

SpecPassword == Init /\ [][NextPassword]_vars

\* The compiler's functions on their inputs.
NextCall == ParseToken \/ ProcessField \/ ConvertDefinition

SpecCall == InitCall /\ [][NextCall]_vars

----------------------------------------------------------------------------
(* Properties *)

ExtensionOps == {"virtual", "static", "method", "query", "pre", "post", "plugin"}
CrudOps == {"create", "find", "findOne", "findById", "update", "updateById",
            "delete", "deleteById", "count", "distinct", "aggregate", "exists",
            "createIndex"}

MaterializationsOf(n) ==
  {i \in DOMAIN mongooseModels : mongooseModels[i].name = n}

\* C1: first registration wins.  Once model(name, ..) has registered name,
\* every later model(name, ..) call returns the handle of the first call and
\* creates no Schema object, changes no Schema object (no synthesis), makes no
\* mongoose.model call and leaves both registry maps as they were.
C1_FirstRegistrationWins ==
  [][\A n \in ModelNames :
       (models[n] # 0 /\ last'.op = "model" /\ last'.name = n) =>
         /\ last'.outcome = "returned"
         /\ last'.handle = models[n]
         /\ ~last'.created
         /\ models' = models /\ schemas' = schemas
         /\ heap' = heap /\ mongooseModels' = mongooseModels]_vars

\* A repeated model(name, ..) call has been answered from the registry.
C1_Witness ==
  /\ last.op = "model" /\ last.outcome = "returned" /\ ~last.created
  /\ last.handle = models[last.name] /\ last.handle # 0

\* C2: a schema-extension operation on a name that has no registered schema
\* throws the model-not-found error and changes neither registry map, no
\* Schema object and no materialized model.
C2_ExtendUnregisteredFails ==
  [][\A n \in ModelNames :
       (schemas[n] = 0 /\ models[n] = 0
          /\ last'.op \in ExtensionOps /\ last'.name = n) =>
         /\ last'.outcome = "threw"
         /\ last'.error.class = "Error"
         /\ last'.error.message = "Model '" \o n \o "' not found"
         /\ models' = models /\ schemas' = schemas
         /\ heap' = heap /\ mongooseModels' = mongooseModels]_vars

\* An extension call on an unregistered name has thrown while another model,
\* whose schema must stay as it is, is registered.
C2_Witness ==
  /\ last.op \in ExtensionOps /\ last.outcome = "threw"
  /\ schemas[last.name] = 0
  /\ \E n \in ModelNames : schemas[n] # 0 /\ Len(heap[schemas[n]].indexes) > 0

\* C3: registration is atomic per name.  However the model(name, ..) calls of
\* several callers are ordered, a name has at most one materialized model,
\* exactly one once it is registered, and every caller of model(name, ..) was
\* handed the same handle, the one in the registry.
C3_AtomicRegistration ==
  \A n \in ModelNames :
    /\ Cardinality(MaterializationsOf(n)) <= 1
    /\ Cardinality(handed[n]) <= 1
    /\ models[n] # 0 <=> Cardinality(MaterializationsOf(n)) = 1
    /\ models[n] # 0 => handed[n] = {models[n]}
    /\ models[n] # 0 <=> schemas[n] # 0

\* Two names are registered and a further caller of model() on one of them
\* has been handed the registered handle.
C3_Witness ==
  /\ \A n \in ModelNames : models[n] # 0
  /\ last.op = "model" /\ ~last.created /\ last.handle \in handed[last.name]

\* The most recent call ended by throwing the error _handleError returned.
Normalized == last.outcome = "threw" /\ last.error.hasOriginal

\* The sub-error messages written out with ", " between them.
Listed(msgs) ==
  CASE Len(msgs) = 0 -> ""
    [] Len(msgs) = 1 -> msgs[1]
    [] Len(msgs) = 2 -> msgs[1] \o ", " \o msgs[2]

C5_NormalizationNeverThrows ==
  (last.op \in CrudOps /\ last.outcome = "threw") =>
    /\ last.error.class # "TypeError"
    /\ last.error.message # "undefined already exists. Please use a different value."

\* C6: when the underlying model call of a CRUD method fails, the caller gets
\* the normalized error with the raw failure attached as originalError.
C6_NoRawFailureLeaks ==
  (last.op \in CrudOps /\ last.reachedStore /\ last.failure.kind # "none") =>
    /\ last.outcome = "threw"
    /\ last.error.class = "Error"
    /\ last.error.hasOriginal
    /\ last.error.original = last.failure

NotFoundMessages(n) ==
  { "Model '" \o n \o "' not found",
    "Model '" \o n \o "' not found. Create it first with .model()" }

\* C7: an operation keyed by a model name that is not registered throws an
\* error whose message says that the model was not found, and does not reach
\* the store.
C7_UnregisteredNotFound ==
  (last.op \in CrudOps \cup ExtensionOps /\ models[last.name] = 0) =>
    /\ last.outcome = "threw"
    /\ ~last.reachedStore
    /\ last.error.message \in NotFoundMessages(last.name)

\* C8: every normalized error was written exactly once with console.error,
\* whatever this.debug is.
C8_LoggedOnce ==
  Normalized => errOut = << "(x) " \o last.error.message >>

\* A normalized error has been logged with debug mode off.
C8_Witness ==
  /\ Normalized /\ ~debug /\ Len(errOut) = 1
  /\ last.error.message = "Invalid ID format"

SynthesizedNames == {"fullName", "age", "createdAtFormatted"}

\* C9: name-collision law.  Compiling a descriptor that declares a field named
\* fullName, age or createdAtFormatted succeeds, and no Schema object carries
\* a virtual with the name of one of its declared fields.
C9_NameCollisionLaw ==
  /\ \A i \in DOMAIN heap : \A f \in SynthesizedNames :
       f \in heap[i].paths => ~HasVirtual(heap[i], f)
  /\ last.op \in {"schema", "model"} => last.outcome # "threw"

NoDuplicates(seq) ==
  \A i, j \in DOMAIN seq : seq[i] = seq[j] => i = j

\* C10: synthesis is idempotent.  However often model() has run the synthesis
\* steps on a Schema object, no index and no hook is attached to it twice.
C10_SynthesisIdempotent ==
  \A i \in DOMAIN heap :
    NoDuplicates(heap[i].indexes) /\ NoDuplicates(heap[i].hooks)

----------------------------------------------------------------------------
(* The Quick Start registration *)

\* The schema object was compiled from the Quick Start descriptor.
FromQuickStart(s) ==
  [i \in DOMAIN s.def |-> s.def[i].field] = << "name", "email", "age" >>

\* C11: registering a model from {name: 'string!', email: 'email!!',
\* age: 'number?'} yields a schema with exactly the three fields, where name
\* is required, non-unique text, email is required, unique, lowercased and
\* pattern-validated text and age is optional numeric; the schema has no
\* fullName virtual and has a unique index keyed on email.
C11_QuickStartSchema ==
  \A n \in ModelNames :
    (schemas[n] # 0 /\ FromQuickStart(heap[schemas[n]])) =>
      LET s == heap[schemas[n]]
          name == s.def[1].spec
          email == s.def[2].spec
          age == s.def[3].spec
      IN /\ name.type = "String" /\ name.required # Unset /\ ~name.unique
         /\ email.type = "String" /\ email.required # Unset /\ email.unique
         /\ email.lowercase /\ email.match = "email"
         /\ age.type = "Number" /\ age.required = Unset
         /\ ~HasVirtual(s, "fullName")
         /\ \E i \in DOMAIN s.indexes :
              s.indexes[i].field = "email" /\ s.indexes[i].unique

----------------------------------------------------------------------------
(* Token resolution *)

\* A direct call of fn has returned.
Returns(fn) == job.pc = "done" /\ job.fn = fn

\* C12: token resolution is total.  For every string that is not a key of the
\* token table, _parseSmartShortcut returns the fallback descriptor: plain
\* text type, not required, not unique, no default.
C12_TokenResolutionTotal ==
  (Returns("_parseSmartShortcut") /\ job.input \notin DOMAIN shortcuts) =>
    /\ job.output.type = "String"
    /\ job.output.required = Unset
    /\ ~job.output.unique
    /\ job.output.default = Unset

\* The type constructor a base type name stands for.
BaseType ==
  ( "string" :> "String" @@ "number" :> "Number" @@ "boolean" :> "Boolean"
 @@ "date" :> "Date" @@ "array" :> "Array" @@ "object" :> "Object"
 @@ "buffer" :> "Buffer" @@ "decimal" :> "Decimal128" @@ "map" :> "Map"
 @@ "mixed" :> "Mixed" )

\* C13: marker semantics are orthogonal to the base type.  For every base b,
\* b? resolves to what b resolves to, b! to a required descriptor of type b,
\* b!! to a required and unique descriptor of type b, b+ to a descriptor of
\* type b with a default, and each of these tokens is a key of the table.
C13_MarkersOrthogonal ==
  Returns("_parseSmartShortcut") =>
    \A b \in Bases, m \in Markers \ {""} :
      job.input = b \o m =>
        LET d == job.output
        IN /\ job.input \in DOMAIN shortcuts
           /\ d.type = BaseType[b]
           /\ m = "?" => d = ParseSmartShortcut(b)
           /\ m = "!" => d.required # Unset
           /\ m = "!!" => d.required # Unset /\ d.unique
           /\ m = "+" => d.default # Unset

\* What the "Equivalent To" column gives for a shortcut.
Equivalent(type, required, unique, default, lowercase, match, minlength, ref) ==
  [type |-> type, required |-> required, unique |-> unique, default |-> default,
   lowercase |-> lowercase, match |-> match, minlength |-> minlength, ref |-> ref]
Plain(type) == Equivalent(type, FALSE, FALSE, Unset, FALSE, Unset, 0, Unset)

\* The rows of the README's Schema Shortcuts Reference that give a descriptor.
Reference ==
  ( "string"   :> Plain("String")
 @@ "string!"  :> [Plain("String") EXCEPT !.required = TRUE]
 @@ "string+"  :> [Plain("String") EXCEPT !.default = "''"]
 @@ "string!!" :> [Plain("String") EXCEPT !.required = TRUE, !.unique = TRUE]
 @@ "number"   :> Plain("Number")
 @@ "number!"  :> [Plain("Number") EXCEPT !.required = TRUE]
 @@ "number+"  :> [Plain("Number") EXCEPT !.default = "0"]
 @@ "boolean"  :> Plain("Boolean")
 @@ "boolean!" :> [Plain("Boolean") EXCEPT !.required = TRUE]
 @@ "boolean+" :> [Plain("Boolean") EXCEPT !.default = "false"]
 @@ "date"     :> Plain("Date")
 @@ "date+"    :> [Plain("Date") EXCEPT !.default = "Date.now"]
 @@ "array"    :> Plain("Array")
 @@ "array+"   :> [Plain("Array") EXCEPT !.default = "[]"]
 @@ "object"   :> Plain("Object")
 @@ "object+"  :> [Plain("Object") EXCEPT !.default = "{}"]
 @@ "email"    :> [Plain("String") EXCEPT !.lowercase = TRUE, !.match = "email"]
 @@ "email!!"  :> [Plain("String") EXCEPT !.required = TRUE, !.unique = TRUE,
                                          !.lowercase = TRUE, !.match = "email"]
 @@ "password" :> [Plain("String") EXCEPT !.minlength = 6]
 @@ "url"      :> [Plain("String") EXCEPT !.match = "url"]
 @@ "phone"    :> [Plain("String") EXCEPT !.match = "phone"]
 @@ "color"    :> [Plain("String") EXCEPT !.match = "hexColor"]
 @@ "userRef"     :> [Plain("ObjectId") EXCEPT !.ref = "User"]
 @@ "postRef"     :> [Plain("ObjectId") EXCEPT !.ref = "Post"]
 @@ "productRef"  :> [Plain("ObjectId") EXCEPT !.ref = "Product"]
 @@ "orderRef"    :> [Plain("ObjectId") EXCEPT !.ref = "Order"]
 @@ "categoryRef" :> [Plain("ObjectId") EXCEPT !.ref = "Category"] )

\* The rows that describe their shortcut in words only.
DescribedOnly == {"point", "location"}

\* C14: every shortcut of the README's Schema Shortcuts Reference is a key of
\* the token table and resolves to a descriptor with the base type,
\* requiredness, uniqueness, default and validators of its "Equivalent To"
\* column.
C14_ReferenceTableHolds ==
  (Returns("_parseSmartShortcut")
     /\ job.input \in DOMAIN Reference \cup DescribedOnly) =>
    /\ job.input \in DOMAIN shortcuts
    /\ job.input \in DOMAIN Reference =>
         LET d == job.output
         IN Equivalent(d.type, d.required # Unset, d.unique, d.default,
                       d.lowercase, d.match, d.minlength, d.ref)
              = Reference[job.input]

----------------------------------------------------------------------------
(* Partial descriptors and name-driven inference *)

\* C15: explicit keys win over inferred ones.  Each of the keys lowercase,
\* match, trim and validate that the partial descriptor sets has the same
\* value in the descriptor _processFieldConfig returns, whatever the field
\* name is.
C15_ExplicitKeysWin ==
  Returns("_processFieldConfig") =>
    \A key \in {"lowercase", "match", "trim", "validate"} :
      job.input[key] # Unset => job.output[key] = job.input[key]

\* A compiled entry carries the lowercase flag and an email-shape validator.
EmailShaped(c) ==
  CASE c.kind = "spec" -> c.spec.lowercase /\ c.spec.match = "email"
    [] c.kind = "object" -> c.obj.lowercase = "true" /\ c.obj.match # Unset
    [] c.kind = "list" -> FALSE

\* C16: email inference is driven by the field name alone.  Every field of a
\* descriptor whose name contains "email", whatever the form of its raw
\* entry, has a compiled descriptor with the lowercase flag and an
\* email-shape validator.
C16_EmailInferenceByName ==
  Returns("_convertToFullSchema") =>
    \A i \in DOMAIN job.input :
      job.input[i].field \in EmailNames =>
        \E j \in DOMAIN job.output :
          job.output[j].field = job.input[i].field /\ EmailShaped(job.output[j])

\* Some entry of a mapping is still a shorthand token string.
HoldsToken(sub) == \E i \in DOMAIN sub : sub[i].config.kind = "token"

\* A compiled entry in which a shorthand token string is left.
RawTokenIn(c) ==
  CASE c.kind = "spec" -> FALSE
    [] c.kind = "object" -> HoldsToken(c.obj.sub)
    [] c.kind = "list" -> IF c.raw.tok # Unset THEN TRUE ELSE HoldsToken(c.raw.sub)

\* C17: every leaf of a compiled schema is a canonical field descriptor.  No
\* entry of the output of _convertToFullSchema holds a shorthand token
\* string, neither as a list element nor inside a nested mapping.
C17_NoRawTokenLeft ==
  Returns("_convertToFullSchema") =>
    \A j \in DOMAIN job.output : ~RawTokenIn(job.output[j])

\* A compiled entry that gives min or max with a base type that is not
\* numeric.
BoundOnNonNumeric(c) ==
  /\ c.kind = "object"
  /\ c.obj.type \notin {"Number", "Date"}
  /\ c.obj.min # Unset \/ c.obj.max # Unset

\* C18: a partial descriptor that gives min or max with a non-numeric base
\* type is never accepted by schema() or model(): no Schema object is compiled
\* from it and no registry entry refers to one.
C18_MalformedRejected ==
  /\ \A i \in DOMAIN heap : \A j \in DOMAIN heap[i].def :
       ~BoundOnNonNumeric(heap[i].def[j])
  /\ \A n \in ModelNames :
       schemas[n] # 0 =>
         \A j \in DOMAIN heap[schemas[n]].def :
           ~BoundOnNonNumeric(heap[schemas[n]].def[j])

----------------------------------------------------------------------------
(* Permanence of the registry *)

\* C19: registry entries are permanent.  Whatever operation runs (connect,
\* disconnect, a driver event, a CRUD call, clearAll, dropDatabase, a schema
\* extension, a further model() call), a registered name stays registered
\* and keeps its model handle and its Schema object.
C19_RegistryPermanent ==
  [][\A n \in ModelNames :
       /\ models[n] # 0 => models'[n] = models[n]
       /\ schemas[n] # 0 =>
            schemas'[n] = schemas[n] /\ schemas'[n] \in DOMAIN heap']_vars

\* clearAll has deleted the documents of both registered models, one after
\* the other, and is about to leave its loop.
C19_Witness ==
  /\ pending.call = "clearAll" /\ pending.at = 3
  /\ Len(mongooseModels) = 2
  /\ \A n \in ModelNames : models[n] # 0 /\ schemas[n] # 0

----------------------------------------------------------------------------
(* Transactions with retry *)

\* C20: withRetryTransaction(callback, maxRetries) ends, for every maxRetries,
\* by returning the result of an attempt whose transaction committed or by
\* throwing the error of its last attempt; it runs the transaction at most
\* maxRetries times, starts a further attempt only after an error carrying
\* writeConcernError, and rethrows any other error without retrying.
C20_RetryContract ==
  tx.pc # "none" =>
    /\ tx.pc = "returned" => tx.committed /\ tx.runs >= 1
    /\ tx.pc = "threw" => tx.error = tx.lastError /\ tx.error.attempt = tx.runs
    /\ tx.runs <= tx.maxRetries
    /\ (tx.pc \in {"waiting", "attempt"} /\ tx.runs >= 1) =>
         WriteConcernError(tx.lastError)
    /\ (tx.pc = "threw" /\ ~WriteConcernError(tx.error)) => tx.runs = tx.attempt

----------------------------------------------------------------------------
(* Enum validators *)

\* The values a validator is tried on.
Candidates == {"Electronics", "Books", "Toys", ""}

\* The text the allowed values make when written with ", " between them.
Allowed(enum) ==
  CASE enum = << >> -> ""
    [] enum = << "Electronics", "Clothing", "Books" >> -> "Electronics, Clothing, Books"

\* C21: for a partial descriptor with an enum and no validator of its own,
\* _processFieldConfig adds a validator that accepts a value exactly when it
\* is a member of the enum list, with the message "{PATH} must be one of: "
\* followed by the allowed values joined by ", "; a validator the user gave
\* is kept and none is generated.
C21_EnumValidator ==
  Returns("_processFieldConfig") =>
    /\ (job.input.hasEnum /\ job.input.validate = Unset) =>
         /\ job.output.validate =
              "{ validator: v => enum.includes(v), message: '{PATH} must be one of: "
                \o Allowed(job.input.enum) \o "' }"
         /\ \A v \in Candidates :
              EnumValidator(job.output, v)
                <=> \E i \in DOMAIN job.input.enum : job.input.enum[i] = v
    /\ job.input.validate # Unset => job.output.validate = job.input.validate
    /\ ~job.input.hasEnum => job.output.validate = job.input.validate

\* An enum of three values was given without a validator, and the validator
\* generated for it takes "Books" and refuses "Toys".
C21_Witness ==
  /\ Returns("_processFieldConfig")
  /\ Len(job.input.enum) = 3 /\ job.input.validate = Unset
  /\ job.output.validate # Unset
  /\ EnumValidator(job.output, "Books") /\ ~EnumValidator(job.output, "Toys")

----------------------------------------------------------------------------
(* The age virtual *)

\* 365.25 days in milliseconds.
JulianYear == Ms(31557, 600000)

\* C22: a Schema object has the age virtual exactly when it has a birthDate
\* or a dob path, and the virtual read at time t gives null for a document
\* with neither value and otherwise the whole number a of 365.25-day years
\* elapsed since birth (birthDate, else dob): a years <= t - birth < a + 1
\* years.  Exactly 30 such years give 30, one millisecond less gives 29.
C22_AgeVirtual ==
  /\ \A i \in DOMAIN heap :
       HasVirtual(heap[i], "age")
         <=> ("birthDate" \in heap[i].paths \/ "dob" \in heap[i].paths)
  /\ (doc.pc = "live" /\ doc.read = "age") =>
       LET birth == IF doc.birthDate # NoDate THEN doc.birthDate ELSE doc.dob
           elapsed == Minus(doc.readAt, birth)
           a == doc.age.years
       IN /\ doc.age.null <=> (doc.birthDate = NoDate /\ doc.dob = NoDate)
          /\ ~doc.age.null =>
               /\ AtMost(TimesMs(a, JulianYear), elapsed)
               /\ ~AtMost(TimesMs(a + 1, JulianYear), elapsed)
               /\ elapsed = TimesMs(30, JulianYear) => a = 30
               /\ elapsed = Minus(TimesMs(30, JulianYear), Ms(0, 1)) => a = 29

\* The age of a document born one millisecond less than 30 years before the
\* time of reading has been read as 29.
C22_Witness ==
  /\ doc.pc = "live" /\ doc.read = "age" /\ ~doc.age.null
  /\ Minus(doc.readAt, Birth(doc)) = Minus(TimesMs(30, JulianYear), Ms(0, 1))
  /\ doc.age.years = 29

RECURSIVE SlugWords(_, _, _, _)
\* The maximal runs of letters and digits of a string, lower-cased and
\* joined by single dashes.
SlugWords(chars, i, out, gap) ==
  IF i > Len(chars) THEN out
  ELSE LET c == ToLowerCase(chars[i])
       IN IF AlphaNumeric(c)
            THEN SlugWords(chars, i + 1,
                           out \o (IF gap /\ out # << >> THEN << "-" >> ELSE << >>)
                               \o << c >>, FALSE)
            ELSE SlugWords(chars, i + 1, out, TRUE)

\* A step that is one save() of the document followed.
SaveStep == doc.pc = "live" /\ doc'.pc = "live" /\ doc'.saves = doc.saves + 1

\* C23: a save never changes a slug that is already there and never touches
\* the slug when neither name nor title was modified; when one of them was
\* modified and the slug is empty, the slug becomes the source (name, else
\* title) lower-cased, every character outside [a-z0-9] made a dash, runs of
\* dashes collapsed and the dashes at the two ends removed.
C23_SlugHook ==
  [][SaveStep =>
       LET source == IF TruthyText(doc.name) THEN doc.name ELSE doc.title
           touched == "name" \in doc.modified \/ "title" \in doc.modified
       IN /\ TruthyText(doc.slug) => doc'.slug = doc.slug
          /\ ~touched => doc'.slug = doc.slug
          /\ (touched /\ ~TruthyText(doc.slug) /\ TruthyText(source)) =>
               doc'.slug = SlugWords(source, 1, << >>, FALSE)]_vars

\* A document named "- A" was saved and got the slug "a".
C23_Witness ==
  /\ doc.pc = "live"
  /\ doc.saves = 1
  /\ doc.name = << "-", " ", "A" >>
  /\ doc.slug = << "a" >>

\* C24: the password a successful save has written carries at most one
\* hashed_.._<time> wrapper: each modification of the field is transformed
\* once, and a value already transformed is never transformed again.
C24_PasswordOnce ==
  (doc.pc = "live" /\ doc.lastSave = "ok") => Len(doc.password.stamps) <= 1

\* How often op was invoked on the session.
Invoked(op) == Cardinality({i \in DOMAIN txn.ops : txn.ops[i] = op})

\* A transaction(callback) call that got a session has ended.
TransactionOver ==
  txn.pc = "done" /\ txn.fn = "transaction" /\ txn.sessions = 1

\* C25: a transaction that has ended invoked exactly one of commitTransaction
\* and abortTransaction: commit when the callback resolved, and then the
\* callback's result is returned; abort when the callback rejected, and then
\* the callback's own error is thrown.
C25_CommitXorAbort ==
  TransactionOver =>
    /\ Invoked("commitTransaction") + Invoked("abortTransaction") = 1
    /\ Invoked("commitTransaction") = 1 <=> txn.cb = "resolved"
    /\ txn.cb = "resolved" => (txn.outcome = "returned" /\ txn.value = "result")
    /\ txn.cb # "resolved" => (txn.outcome = "threw" /\ txn.error = txn.cb)

\* C26: a transaction that got a session invokes endSession exactly once, as
\* the last operation on the session, however it ends; before it ends
\* endSession has not been invoked.
C26_EndSessionOnce ==
  /\ TransactionOver =>
       /\ Invoked("endSession") = 1
       /\ txn.ops[Len(txn.ops)] = "endSession"
  /\ (txn.pc \in {"callback", "commit", "abort"}) => Invoked("endSession") = 0

\* A commit that failed was followed by an abort that failed, and the
\* session was ended after both.
C26_Witness ==
  /\ TransactionOver
  /\ txn.ops = << "startTransaction", "commitTransaction", "abortTransaction",
                  "endSession" >>
  /\ txn.error = "abort failed"

\* The lifecycle calls that test isConnected before they do anything.
GuardedCalls == {"disconnect", "dropDatabase", "clearAll"}

\* C27: while isConnected is false, startSession() and transaction(callback)
\* throw 'Not connected to database' with no session created, no operation
\* on a session and the callback not invoked; disconnect(), dropDatabase()
\* and clearAll() return without reaching their driver call and leave the
\* registry, the debug flag, isConnected and the driver as they were.
C27_NotConnectedNoEffect ==
  [][/\ (~isConnected /\ txn.pc \in {"none", "done"} /\ txn' # txn) =>
          /\ txn'.pc = "done"
          /\ txn'.outcome = "threw"
          /\ txn'.error = NotConnected
          /\ txn'.sessions = 0
          /\ ~txn'.called
          /\ txn'.ops = << >>
     /\ (~isConnected /\ pending = Idle) =>
          /\ pending'.call \notin GuardedCalls
          /\ (last' # last /\ last'.op \in GuardedCalls) =>
               /\ last'.outcome = "returned"
               /\ UNCHANGED <<models, schemas, heap, mongooseModels, handed,
                              debug, extCalls, isConnected, driver, txn>>]_vars

\* A connection was made and lost; transaction(callback) then threw
\* 'Not connected to database' and clearAll() returned.
C27_Witness ==
  /\ driver.handlers > 0
  /\ ~isConnected
  /\ txn.pc = "done" /\ txn.fn = "transaction" /\ txn.error = NotConnected
  /\ last.op = "clearAll" /\ last.outcome = "returned"

\* C28: isConnected is true exactly when the driver connection is in the
\* connected state, whenever no lifecycle call is in progress.
C28_StatusAgrees ==
  pending = Idle => (isConnected <=> driver.readyState = "connected")

\* The field names of a definition or of a compiled definition, in order.
FieldOrder(entries) == [i \in DOMAIN entries |-> entries[i].field]

\* C29: _convertToFullSchema keeps the field set: its output has the field
\* names of its input, in the order given, whatever the form of each raw
\* entry (token, list, partial descriptor, nested mapping, bare constructor).
C29_FieldSetPreserved ==
  Returns("_convertToFullSchema") =>
    FieldOrder(job.output) = FieldOrder(job.input)

\* The [value, message] pairs a user supplies as a bound.
UserPairs == {"[0, 'Price cannot be negative']"}

\* The bound a descriptor should come out with, for the bound given and the
\* message the compiler adds.
BoundFor(given, message) ==
  IF given \in UserPairs THEN given
  ELSE "[" \o given \o ", '" \o message \o "']"

\* C30: a min or max given in a partial descriptor is enforced with its
\* value: a bare number n, 0 included, comes out as [n, auto-message]; a
\* [value, message] pair supplied by the user comes out as it went in.
C30_BoundKept ==
  Returns("_processFieldConfig") =>
    /\ job.input.min # Unset =>
         job.output.min = BoundFor(job.input.min, "{PATH} must be at least {MIN}")
    /\ job.input.max # Unset =>
         job.output.max = BoundFor(job.input.max, "{PATH} cannot exceed {MAX}")

====
